---- MODULE Spec2Model ----
(***************************************************************************)
(* Model of yamn-proxy (yp.go): one accepted connection and its session,   *)
(* and main with its listener goroutine.                                   *)
(*                                                                         *)
(* Bytes are their ASCII codes.  The client's byte stream is drawn at Init *)
(* from ClientStreams and arrives in chunks; the relay reads it through    *)
(* the socket queue cliQ.  HTTP messages use a reduced wire grammar that   *)
(* keeps what the handlers look at:                                        *)
(*   request  = METHOD SP path host header* LF body*                       *)
(*   response = status header* LF body*                                    *)
(* with one byte per path, host, header field and status.  Header byte     *)
(* 108 ('l') stands for "Content-Length: 1" and 99 ('c') for               *)
(* "Connection: close".                                                    *)
(***************************************************************************)
EXTENDS Integers, Sequences, FiniteSets, TLC

VARIABLES
    stream,      \* the bytes this client will send, in order
    sentN,       \* how many of them it has sent
    sends,       \* in how many segments
    cliQ,        \* client socket: bytes received, not yet read by the relay
    cliEOF,      \* the client has closed its write side
    rbuf,        \* bufio.Reader of handleConnection: bytes read from the socket, unconsumed
    rpos,        \* number of bytes of rbuf consumed by the HTTP parser / body reader
    clientConn,  \* "open" | "closed" (closed by the relay)
    deadline,    \* deadline of the client connection: {} (none) or {t}
    now,         \* clock, seconds
    pc,          \* position of the session goroutine
    class,       \* handler the session was given to: "none" | "HTTP" | "Opaque"
    peek,        \* result of reader.Peek(4) (<<>> before it returns or when it fails)
    peekErr,     \* reader.Peek(4) returned an error
    entryDeadline, \* deadline in force when handleHTTP / handleSMTP began
    exit,        \* the return statement the session left its handler by
    toClient,    \* bytes written to the client connection
    req,         \* request parsed by http.ReadRequest
    newReq,      \* outbound request built by handleHTTP
    rawResp,     \* bytes of the response the HTTP upstream sent
    httpConn,    \* transport connection to the HTTP upstream: "none" | "open" | "idle" | "closed"
    dials,       \* number of dials attempted through the SOCKS5 proxy
    target,      \* Opaque upstream connection: "none" | "open" | "closed"
    upSent,      \* bytes the Opaque upstream has sent
    upQ,         \* of those, the bytes not yet read by the relay
    upEOF,       \* the Opaque upstream has closed its write side
    toUp,        \* bytes written to the Opaque upstream
    c2t,         \* copy goroutine client -> target: [pc, err]
    t2c,         \* copy goroutine target -> client: [pc, err]
    errChan,     \* buffered channel of copy outcomes
    first,       \* outcome the session received from errChan
    egress,      \* connections dialed for the session: set of [peer, dest]
    served,      \* calls of http.ReadRequest and route lookups made: [reads, lookups]
    c2tBuf,      \* bytes the client -> target copy has read and not yet written
    mpc,         \* position of main: "start" | "exec" | "cmd" | "run" | "exited" | "fatal"
    lpc,         \* position of the listener goroutine: "off" | "listen" | "accept" |
                 \* "dispatch" | "fatal"
    bound,       \* net.Listen has bound LocalProxy
    companion,   \* the yamn executable: "none" | "running" | "done"
    sess,        \* the accepted connections, in order: "accepted" | "running" |
                 \* "stuck" | "done"
    acceptErrs   \* number of errors listener.Accept() has returned

sessVars == <<stream, sentN, sends, cliQ, cliEOF, rbuf, rpos, clientConn, deadline, now, pc,
          class, peek, peekErr, entryDeadline, exit, toClient, req, newReq,
          rawResp, httpConn, dials, target, upSent, upQ, upEOF, toUp, c2t, t2c,
          errChan, first, egress, served, c2tBuf>>

mainVars == <<mpc, lpc, bound, companion, sess, acceptErrs>>

vars == <<sessVars, mainVars>>

cliVars  == <<stream, sentN, sends, cliQ, cliEOF>>
httpVars == <<req, newReq, rawResp, httpConn>>
upVars   == <<upSent, upQ, upEOF>>
copyVars == <<c2t, t2c, errChan, first, toUp>>

(***************************************************************************)
(* Bounds                                                                  *)
(***************************************************************************)
MaxUp    == 2    \* bytes the Opaque upstream may send
MaxSends == 2    \* segments the client may split its stream into
MaxAccepts == 2    \* connections the listener accepts
MaxAcceptErrs == 2    \* errors listener.Accept() returns

(***************************************************************************)
(* Program constants                                                       *)
(***************************************************************************)
ConnectTimeout == 60
InitialTimeout == 10
IoTimeout      == 300
PeekLen        == 4
ErrChanCap     == 2

SP == 32
LF == 10

\* addresses, as bytes: ProxyAddr (":9050") and smtpTarget (":2525")
ProxyAddr  == <<58, 57, 48, 53, 48>>
smtpTarget == <<58, 50, 53, 50, 53>>

tokGET     == <<71, 69, 84, 32>>                 \* "GET "
tokPOST    == <<80, 79, 83, 84, 32>>             \* "POST "
tokHEAD    == <<72, 69, 65, 68, 32>>             \* "HEAD "
tokCONNECT == <<67, 79, 78, 78, 69, 67, 84>>     \* "CONNECT"

\* Route table: host+path -> upstream URL.
httpTargets ==
    [k \in {<<104, 112>>, <<104, 113>>} |->
        IF k = <<104, 112>> THEN <<119, 112>> ELSE <<119, 113>>]

(***************************************************************************)
(* Pure helpers                                                            *)
(***************************************************************************)
IsPrefix(p, s) == Len(p) <= Len(s) /\ SubSeq(s, 1, Len(p)) = p

\* strings.HasPrefix
HasPrefix(s, prefix) == Len(s) >= Len(prefix) /\ SubSeq(s, 1, Len(prefix)) = prefix

Range(s) == {s[i] : i \in 1..Len(s)}

Expired == \E d \in deadline : now >= d


RECURSIVE SortSet(_)
\* the elements of a finite set of bytes, ascending (header keys are written sorted)
SortSet(S) ==
    IF S = {} THEN <<>>
    ELSE LET m == CHOOSE x \in S : \A y \in S : x <= y
         IN  <<m>> \o SortSet(S \ {m})

\* index of the first occurrence of byte b in s, 0 when absent
IndexOf(s, b) ==
    IF b \in Range(s) THEN CHOOSE i \in 1..Len(s) : s[i] = b /\ \A j \in 1..(i-1) : s[j] # b
    ELSE 0

(***************************************************************************)
(* Inputs                                                                  *)
(***************************************************************************)
ClientStreams ==
    { <<>>,                                   \* sends nothing
      <<69, 72, 76, 79, 32, 120>>,            \* "EHLO x"
      tokGET \o <<112, 104, 10>>,             \* GET, mapped key
      tokGET \o <<113, 104, 120, 99, 10>>,    \* GET, mapped key, headers x and Connection: close
      tokGET \o <<112, 104, 108, 10, 122>>,   \* GET, mapped key, one body byte
      tokGET \o <<112, 103, 10>>,             \* GET, host not in the table
      tokGET \o <<10>>,                       \* GET, malformed request line
      tokGET \o <<112, 104, 10>> \o tokGET \o <<113, 104, 10>>,  \* two pipelined GETs
      <<80, 79, 83, 84, 32, 112, 104, 10>>,   \* POST, mapped key
      <<72, 69, 65, 68, 32>>,                 \* "HEAD "
      <<67, 79, 78, 78, 69, 67, 84>> }        \* "CONNECT"

\* what the HTTP upstream may answer
Responses ==
    { <<50, 10, 122>>,              \* 2xx, no header, body z
      <<50, 98, 97, 10, 122>>,      \* 2xx, headers b then a, body z
      <<52, 97, 99, 10>> }          \* 4xx, headers a and Connection: close, no body

\* the k-th byte the Opaque upstream sends: "1", "2", ...
UpByte(k) == 48 + k

NoReq == [method |-> <<>>, host |-> 0, path |-> 0, header |-> {}, clen |-> 0]
NoNewReq == [method |-> <<>>, url |-> <<>>, header |-> {}, body |-> <<>>]
Idle == [pc |-> "off", err |-> "none"]

(***************************************************************************)
(* Initial state: a connection has just been accepted.                     *)
(***************************************************************************)
\* the session of a connection at the call of handleConnection
SessInit ==
    /\ stream \in ClientStreams
    /\ sentN = 0 /\ sends = 0 /\ cliQ = <<>> /\ cliEOF = FALSE
    /\ rbuf = <<>> /\ rpos = 0
    /\ clientConn = "open"
    /\ deadline = {}
    /\ now = 0
    /\ pc = "start"
    /\ class = "none" /\ peek = <<>> /\ peekErr = FALSE
    /\ entryDeadline = {}
    /\ exit = "none"
    /\ toClient = <<>>
    /\ req = NoReq /\ newReq = NoNewReq /\ rawResp = <<>> /\ httpConn = "none"
    /\ dials = 0
    /\ target = "none"
    /\ upSent = <<>> /\ upQ = <<>> /\ upEOF = FALSE /\ toUp = <<>>
    /\ c2t = Idle /\ t2c = Idle
    /\ errChan = <<>> /\ first = "none"
    /\ egress = {}
    /\ served = [reads |-> 0, lookups |-> 0]
    /\ c2tBuf = <<>>

\* the listener has accepted the connection and started its goroutine
Init ==
    /\ SessInit
    /\ mpc = "run" /\ lpc = "accept" /\ bound = TRUE /\ companion = "running"
    /\ sess = <<"running">> /\ acceptErrs = 0

(***************************************************************************)
(* Environment: the client, the clock                                      *)
(***************************************************************************)
\* the client sends the next k bytes of its stream
ClientSend(k) ==
    /\ ~cliEOF /\ clientConn = "open"
    /\ sends < MaxSends
    /\ sentN + k <= Len(stream)
    /\ sentN' = sentN + k
    /\ sends' = sends + 1
    /\ cliQ' = cliQ \o SubSeq(stream, sentN + 1, sentN + k)
    /\ UNCHANGED <<stream, cliEOF>>
    /\ UNCHANGED <<rbuf, rpos, clientConn, deadline, now, pc, class, peek, peekErr,
                   entryDeadline, exit, toClient, httpVars, dials, target, upVars,
                   copyVars>>
    /\ UNCHANGED <<egress, served>>
    /\ UNCHANGED c2tBuf
    /\ UNCHANGED mainVars

\* the client closes its write side
ClientClose ==
    /\ ~cliEOF /\ clientConn = "open"
    /\ cliEOF' = TRUE
    /\ UNCHANGED <<stream, sentN, sends, cliQ>>
    /\ UNCHANGED <<rbuf, rpos, clientConn, deadline, now, pc, class, peek, peekErr,
                   entryDeadline, exit, toClient, httpVars, dials, target, upVars,
                   copyVars>>
    /\ UNCHANGED <<egress, served>>
    /\ UNCHANGED c2tBuf
    /\ UNCHANGED mainVars

\* time passes until the deadline set on the client connection
Tick ==
    /\ pc # "done"
    /\ \E d \in deadline : now < d /\ now' = d
    /\ UNCHANGED <<cliVars, rbuf, rpos, clientConn, deadline, pc, class, peek, peekErr,
                   entryDeadline, exit, toClient, httpVars, dials, target, upVars,
                   copyVars>>
    /\ UNCHANGED <<egress, served>>
    /\ UNCHANGED c2tBuf
    /\ UNCHANGED mainVars

(***************************************************************************)
(* handleConnection                                                        *)
(***************************************************************************)
\* client.SetDeadline(time.Now().Add(InitialTimeout)); reader := bufio.NewReader(client)
ConnStart ==
    /\ pc = "start"
    /\ deadline' = {now + InitialTimeout}
    /\ pc' = "peek"
    /\ UNCHANGED <<cliVars, rbuf, rpos, clientConn, now, class, peek, peekErr,
                   entryDeadline, exit, toClient, httpVars, dials, target, upVars,
                   copyVars>>
    /\ UNCHANGED <<egress, served>>
    /\ UNCHANGED c2tBuf
    /\ UNCHANGED mainVars

\* reader.Peek(4), one fill of the buffer: a Read of the socket takes what has arrived
PeekFill ==
    /\ pc = "peek"
    /\ Len(rbuf) < PeekLen
    /\ ~Expired /\ cliQ # <<>>
    /\ rbuf' = rbuf \o cliQ
    /\ cliQ' = <<>>
    /\ UNCHANGED <<stream, sentN, sends, cliEOF>>
    /\ UNCHANGED <<rpos, clientConn, deadline, now, pc, class, peek, peekErr,
                   entryDeadline, exit, toClient, httpVars, dials, target, upVars,
                   copyVars>>
    /\ UNCHANGED <<egress, served>>
    /\ UNCHANGED c2tBuf
    /\ UNCHANGED mainVars

\* reader.Peek(4) returns the first four buffered bytes without consuming them
PeekOk ==
    /\ pc = "peek"
    /\ Len(rbuf) >= PeekLen
    /\ peek' = SubSeq(rbuf, 1, PeekLen)
    /\ pc' = "classify"
    /\ UNCHANGED <<cliVars, rbuf, rpos, clientConn, deadline, now, class, peekErr,
                   entryDeadline, exit, toClient, httpVars, dials, target, upVars,
                   copyVars>>
    /\ UNCHANGED <<egress, served>>
    /\ UNCHANGED c2tBuf
    /\ UNCHANGED mainVars

\* strings.HasPrefix tests of line 168
IsHTTPInverted(p) ==
    ~(HasPrefix(p, tokGET) \/ HasPrefix(p, tokPOST)
        \/ HasPrefix(p, tokHEAD) \/ HasPrefix(p, tokCONNECT))

IsHTTP(p) ==
    HasPrefix(p, tokGET) \/ HasPrefix(p, tokPOST)
        \/ HasPrefix(p, tokHEAD) \/ HasPrefix(p, tokCONNECT)

\* reader.Peek(4) fails (deadline passed, or end of stream before four bytes):
\* handleSMTP(client, log) is called
PeekFail ==
    /\ pc = "peek"
    /\ Len(rbuf) < PeekLen
    /\ Expired \/ (cliQ = <<>> /\ cliEOF)
    /\ peekErr' = TRUE
    /\ class' = "Opaque"
    /\ entryDeadline' = deadline
    /\ pc' = "smtp_enter"
    /\ UNCHANGED <<cliVars, rbuf, rpos, clientConn, deadline, now, peek, exit,
                   toClient, httpVars, dials, target, upVars, copyVars>>
    /\ UNCHANGED <<egress, served>>
    /\ UNCHANGED c2tBuf
    /\ UNCHANGED mainVars

\* isHTTP ? handleHTTP(reader, client, log) : handleSMTP(client, log)
Classify ==
    /\ pc = "classify"
    /\ IF IsHTTP(peek)
         THEN class' = "HTTP" /\ pc' = "http_read"
         ELSE class' = "Opaque" /\ pc' = "smtp_enter"
    /\ entryDeadline' = deadline
    /\ UNCHANGED <<cliVars, rbuf, rpos, clientConn, deadline, now, peek, peekErr, exit,
                   toClient, httpVars, dials, target, upVars, copyVars>>
    /\ UNCHANGED <<egress, served>>
    /\ UNCHANGED c2tBuf
    /\ UNCHANGED mainVars

\* a return of handleConnection that leaves the client connection open
ConnReturnNoClose ==
    /\ pc = "conn_ret"
    /\ deadline' = {}
    /\ pc' = "done"
    /\ UNCHANGED <<cliVars, rbuf, rpos, clientConn, now, class, peek, peekErr,
                   entryDeadline, exit, toClient, httpVars, dials, target, upVars,
                   copyVars>>
    /\ UNCHANGED <<egress, served>>
    /\ UNCHANGED c2tBuf
    /\ UNCHANGED mainVars

\* return of handleConnection: the deferred client.SetDeadline(time.Time{}) and
\* client.Close() run, in that order
ConnReturn ==
    /\ pc = "conn_ret"
    /\ deadline' = {}
    /\ clientConn' = "closed"
    /\ pc' = "done"
    /\ UNCHANGED <<cliVars, rbuf, rpos, now, class, peek, peekErr, entryDeadline, exit,
                   toClient, httpVars, dials, target, upVars, copyVars>>
    /\ UNCHANGED <<egress, served>>
    /\ UNCHANGED c2tBuf
    /\ UNCHANGED mainVars


(***************************************************************************)
(* handleHTTP                                                              *)
(***************************************************************************)
\* a parser that starts behind the four peeked bytes
ParseRequestAfterPeek(b) ==
    LET c  == SubSeq(b, PeekLen + 1, Len(b))
        sp == IndexOf(c, SP)
        e  == IndexOf(c, LF)
        ok == sp > 1 /\ e >= sp + 3
    IN  IF ok
        THEN [ok |-> TRUE, end |-> PeekLen + e,
              req |-> [method |-> SubSeq(c, 1, sp - 1),
                       path   |-> c[sp + 1],
                       host   |-> c[sp + 2],
                       header |-> Range(SubSeq(c, sp + 3, e - 1)),
                       clen   |-> IF 108 \in Range(SubSeq(c, sp + 3, e - 1)) THEN 1 ELSE 0]]
        ELSE [ok |-> FALSE, end |-> 0, req |-> NoReq]

\* http.ReadRequest on a buffer holding a whole header block (an LF is present); the
\* reader handleHTTP is given is the bufio.Reader the peek filled
ParseRequest(b) ==
    LET sp == IndexOf(b, SP)
        e  == IndexOf(b, LF)
        ok == sp > 1 /\ e >= sp + 3
    IN  IF ok
        THEN [ok |-> TRUE, end |-> e,
              req |-> [method |-> SubSeq(b, 1, sp - 1),
                       path   |-> b[sp + 1],
                       host   |-> b[sp + 2],
                       header |-> Range(SubSeq(b, sp + 3, e - 1)),
                       clen   |-> IF 108 \in Range(SubSeq(b, sp + 3, e - 1)) THEN 1 ELSE 0]]
        ELSE [ok |-> FALSE, end |-> 0, req |-> NoReq]

\* requestedURL := req.Host + req.URL.Path
RequestedURL(r) == <<r.host>> \o <<r.path>>

\* http.NewRequest(req.Method, targetURLString, req.Body); newReq.Header = req.Header.Clone()
NewRequestNoHeader(r, url) ==
    [method |-> r.method, url |-> url, header |-> {}, body |-> <<>>]

NewRequest(r, url) ==
    [method |-> r.method, url |-> url, header |-> r.header, body |-> <<>>]

\* http.ReadResponse inside httpClient.Do: the header block becomes a map
ParseResponse(raw) ==
    LET e == IndexOf(raw, LF)
    IN  [status |-> raw[1],
         header |-> Range(SubSeq(raw, 2, e - 1)),
         body   |-> SubSeq(raw, e + 1, Len(raw))]

\* resp.Write: status line, header keys in sorted order, blank line, body
WriteResponse(r) == <<r.status>> \o SortSet(r.header) \o <<LF>> \o r.body

\* the transport keeps the upstream connection for reuse unless either side asked to close
KeepAlive(rq, r) == 99 \notin rq.header /\ 99 \notin r.header

\* http.ReadRequest, one fill of the buffer while the header block is incomplete
HTTPReadFill ==
    /\ pc = "http_read"
    /\ LF \notin Range(rbuf)
    /\ ~Expired /\ cliQ # <<>>
    /\ rbuf' = rbuf \o cliQ
    /\ cliQ' = <<>>
    /\ UNCHANGED <<stream, sentN, sends, cliEOF>>
    /\ UNCHANGED <<rpos, clientConn, deadline, now, pc, class, peek, peekErr,
                   entryDeadline, exit, toClient, httpVars, dials, target, upVars,
                   copyVars>>
    /\ UNCHANGED <<egress, served>>
    /\ UNCHANGED c2tBuf
    /\ UNCHANGED mainVars

\* http.ReadRequest returns an error: malformed request, end of stream or deadline
HTTPParseError ==
    /\ pc = "http_read"
    /\ \/ LF \in Range(rbuf) /\ ~ParseRequest(rbuf).ok
       \/ LF \notin Range(rbuf) /\ (Expired \/ (cliQ = <<>> /\ cliEOF))
    /\ exit' = "parse_error"
    /\ pc' = "conn_ret"
    /\ UNCHANGED <<cliVars, rbuf, rpos, clientConn, deadline, now, class, peek, peekErr,
                   entryDeadline, toClient, httpVars, dials, target, upVars, copyVars>>
    /\ served' = [served EXCEPT !.reads = @ + 1]
    /\ UNCHANGED egress
    /\ UNCHANGED c2tBuf
    /\ UNCHANGED mainVars

\* http.ReadRequest returns the request; its body is still unread
HTTPParseOk ==
    /\ pc = "http_read"
    /\ LF \in Range(rbuf) /\ ParseRequest(rbuf).ok
    /\ req' = ParseRequest(rbuf).req
    /\ rpos' = ParseRequest(rbuf).end
    /\ pc' = "http_route"
    /\ UNCHANGED <<cliVars, rbuf, clientConn, deadline, now, class, peek, peekErr,
                   entryDeadline, exit, toClient, newReq, rawResp, httpConn, dials,
                   target, upVars, copyVars>>
    /\ served' = [served EXCEPT !.reads = @ + 1]
    /\ UNCHANGED egress
    /\ UNCHANGED c2tBuf
    /\ UNCHANGED mainVars

\* a route miss that answers the client with a status line
HTTPRouteMissReply ==
    /\ pc = "http_route"
    /\ RequestedURL(req) \notin DOMAIN httpTargets
    /\ toClient' = toClient \o <<52, LF>>
    /\ exit' = "no_target"
    /\ pc' = "conn_ret"
    /\ UNCHANGED <<cliVars, rbuf, rpos, clientConn, deadline, now, class, peek, peekErr,
                   entryDeadline, httpVars, dials, target, upVars, copyVars>>
    /\ served' = [served EXCEPT !.lookups = @ + 1]
    /\ UNCHANGED egress
    /\ UNCHANGED c2tBuf
    /\ UNCHANGED mainVars

\* httpTargets[requestedURL] misses: "No target", return
HTTPRouteMiss ==
    /\ pc = "http_route"
    /\ RequestedURL(req) \notin DOMAIN httpTargets
    /\ exit' = "no_target"
    /\ pc' = "conn_ret"
    /\ UNCHANGED <<cliVars, rbuf, rpos, clientConn, deadline, now, class, peek, peekErr,
                   entryDeadline, toClient, httpVars, dials, target, upVars, copyVars>>
    /\ served' = [served EXCEPT !.lookups = @ + 1]
    /\ UNCHANGED egress
    /\ UNCHANGED c2tBuf
    /\ UNCHANGED mainVars

\* httpTargets[requestedURL] hits: the outbound request is built
HTTPRouteHit ==
    /\ pc = "http_route"
    /\ RequestedURL(req) \in DOMAIN httpTargets
    /\ newReq' = NewRequest(req, httpTargets[RequestedURL(req)])
    /\ pc' = "http_dial"
    /\ UNCHANGED <<cliVars, rbuf, rpos, clientConn, deadline, now, class, peek, peekErr,
                   entryDeadline, exit, toClient, req, rawResp, httpConn, dials, target,
                   upVars, copyVars>>
    /\ served' = [served EXCEPT !.lookups = @ + 1]
    /\ UNCHANGED egress
    /\ UNCHANGED c2tBuf
    /\ UNCHANGED mainVars

\* a transport that dials the upstream itself
HTTPDialerDirect(addr) == [peer |-> addr, dest |-> addr]

\* proxy.SOCKS5("tcp", ProxyAddr, nil, proxy.Direct) as the transport's Dial: the TCP
\* connection goes to ProxyAddr, which is asked to connect to addr
HTTPDialer(addr) == [peer |-> ProxyAddr, dest |-> addr]

\* httpClient.Do: the transport dials the upstream through the SOCKS5 proxy
HTTPDial(ok) ==
    /\ pc = "http_dial"
    /\ dials' = dials + 1
    /\ egress' = egress \cup {HTTPDialer(newReq.url)}
    /\ IF ok
         THEN httpConn' = "open" /\ pc' = "http_send" /\ exit' = exit
         ELSE httpConn' = httpConn /\ pc' = "conn_ret" /\ exit' = "http_dial_failed"
    /\ UNCHANGED <<cliVars, rbuf, rpos, clientConn, deadline, now, class, peek, peekErr,
                   entryDeadline, toClient, req, newReq, rawResp, target, upVars,
                   copyVars>>
    /\ UNCHANGED served
    /\ UNCHANGED c2tBuf
    /\ UNCHANGED mainVars

\* httpClient.Do, request body: one fill of the buffer while body bytes are missing
HTTPBodyFill ==
    /\ pc = "http_send"
    /\ Len(rbuf) - rpos < req.clen
    /\ ~Expired /\ cliQ # <<>>
    /\ rbuf' = rbuf \o cliQ
    /\ cliQ' = <<>>
    /\ UNCHANGED <<stream, sentN, sends, cliEOF>>
    /\ UNCHANGED <<rpos, clientConn, deadline, now, pc, class, peek, peekErr,
                   entryDeadline, exit, toClient, httpVars, dials, target, upVars,
                   copyVars>>
    /\ UNCHANGED <<egress, served>>
    /\ UNCHANGED c2tBuf
    /\ UNCHANGED mainVars

\* httpClient.Do: the request, with the body streamed from the client, is written upstream
HTTPSend ==
    /\ pc = "http_send"
    /\ Len(rbuf) - rpos >= req.clen
    /\ newReq' = [newReq EXCEPT !.body = SubSeq(rbuf, rpos + 1, rpos + req.clen)]
    /\ rpos' = rpos + req.clen
    /\ pc' = "http_resp"
    /\ UNCHANGED <<cliVars, rbuf, clientConn, deadline, now, class, peek, peekErr,
                   entryDeadline, exit, toClient, req, rawResp, httpConn, dials, target,
                   upVars, copyVars>>
    /\ UNCHANGED <<egress, served>>
    /\ UNCHANGED c2tBuf
    /\ UNCHANGED mainVars

\* httpClient.Do returns an error after the dial: the body could not be read from the
\* client, or the upstream failed before answering
HTTPDoError ==
    /\ \/ /\ pc = "http_send"
          /\ Len(rbuf) - rpos < req.clen
          /\ Expired \/ (cliQ = <<>> /\ cliEOF)
       \/ pc = "http_resp"
    /\ httpConn' = "closed"
    /\ exit' = "request_failed"
    /\ pc' = "conn_ret"
    /\ UNCHANGED <<cliVars, rbuf, rpos, clientConn, deadline, now, class, peek, peekErr,
                   entryDeadline, toClient, req, newReq, rawResp, dials, target, upVars,
                   copyVars>>
    /\ UNCHANGED <<egress, served>>
    /\ UNCHANGED c2tBuf
    /\ UNCHANGED mainVars

\* httpClient.Do returns the upstream's response
HTTPResp(raw) ==
    /\ pc = "http_resp"
    /\ rawResp' = raw
    /\ pc' = "http_write"
    /\ UNCHANGED <<cliVars, rbuf, rpos, clientConn, deadline, now, class, peek, peekErr,
                   entryDeadline, exit, toClient, req, newReq, httpConn, dials, target,
                   upVars, copyVars>>
    /\ UNCHANGED <<egress, served>>
    /\ UNCHANGED c2tBuf
    /\ UNCHANGED mainVars

\* a handler that goes on to read the next request after a response
HTTPWriteOkKeepAlive ==
    /\ pc = "http_write"
    /\ ~Expired
    /\ toClient' = toClient \o WriteResponse(ParseResponse(rawResp))
    /\ httpConn' = IF KeepAlive(newReq, ParseResponse(rawResp)) THEN "idle" ELSE "closed"
    /\ exit' = "success"
    /\ pc' = "http_read"
    /\ UNCHANGED <<cliVars, rbuf, rpos, clientConn, deadline, now, class, peek, peekErr,
                   entryDeadline, req, newReq, rawResp, dials, target, upVars, copyVars>>
    /\ UNCHANGED <<egress, served>>
    /\ UNCHANGED c2tBuf
    /\ UNCHANGED mainVars

\* resp.Write(client) succeeds; resp.Body.Close() finds the body read to its end, and
\* the transport keeps or closes the upstream connection
HTTPWriteOk ==
    /\ pc = "http_write"
    /\ ~Expired
    /\ toClient' = toClient \o WriteResponse(ParseResponse(rawResp))
    /\ httpConn' = IF KeepAlive(newReq, ParseResponse(rawResp)) THEN "idle" ELSE "closed"
    /\ exit' = "success"
    /\ pc' = "conn_ret"
    /\ UNCHANGED <<cliVars, rbuf, rpos, clientConn, deadline, now, class, peek, peekErr,
                   entryDeadline, req, newReq, rawResp, dials, target, upVars, copyVars>>
    /\ UNCHANGED <<egress, served>>
    /\ UNCHANGED c2tBuf
    /\ UNCHANGED mainVars

\* resp.Write(client) fails on the client's deadline; resp.Body.Close() abandons the
\* unread body and the transport closes the upstream connection
HTTPWriteError ==
    /\ pc = "http_write"
    /\ Expired
    /\ httpConn' = "closed"
    /\ exit' = "write_error"
    /\ pc' = "conn_ret"
    /\ UNCHANGED <<cliVars, rbuf, rpos, clientConn, deadline, now, class, peek, peekErr,
                   entryDeadline, toClient, req, newReq, rawResp, dials, target, upVars,
                   copyVars>>
    /\ UNCHANGED <<egress, served>>
    /\ UNCHANGED c2tBuf
    /\ UNCHANGED mainVars


(***************************************************************************)
(* handleSMTP                                                              *)
(***************************************************************************)
\* an entry that leaves the client connection without a deadline
SMTPEnterNoDeadline ==
    /\ pc = "smtp_enter"
    /\ deadline' = {}
    /\ pc' = "smtp_dial"
    /\ UNCHANGED <<cliVars, rbuf, rpos, clientConn, now, class, peek, peekErr,
                   entryDeadline, exit, toClient, httpVars, dials, target, upVars,
                   copyVars>>
    /\ UNCHANGED <<egress, served>>
    /\ UNCHANGED c2tBuf
    /\ UNCHANGED mainVars

\* client.SetDeadline(time.Now().Add(IoTimeout)); proxy.SOCKS5(...)
SMTPEnter ==
    /\ pc = "smtp_enter"
    /\ deadline' = {now + IoTimeout}
    /\ pc' = "smtp_dial"
    /\ UNCHANGED <<cliVars, rbuf, rpos, clientConn, now, class, peek, peekErr,
                   entryDeadline, exit, toClient, httpVars, dials, target, upVars,
                   copyVars>>
    /\ UNCHANGED <<egress, served>>
    /\ UNCHANGED c2tBuf
    /\ UNCHANGED mainVars

\* proxy.SOCKS5("tcp", ProxyAddr, nil, &net.Dialer{...}): DialContext and the fallback
\* Dial both connect to ProxyAddr, which is asked to connect to addr
SMTPDialer(addr) == [peer |-> ProxyAddr, dest |-> addr]

\* contextDialer.DialContext(ctx, "tcp", smtpTarget) through the SOCKS5 proxy; on
\* success keep-alive is set, errChan is made and the two copy goroutines are started
SMTPDial(ok) ==
    /\ pc = "smtp_dial"
    /\ dials' = dials + 1
    /\ egress' = egress \cup {SMTPDialer(smtpTarget)}
    /\ IF ok
         THEN /\ target' = "open"
              /\ c2t' = [pc |-> "copy", err |-> "none"]
              /\ t2c' = [pc |-> "copy", err |-> "none"]
              /\ pc' = "smtp_wait"
              /\ exit' = exit
         ELSE /\ exit' = "smtp_dial_failed"
              /\ pc' = "smtp_ret"
              /\ UNCHANGED <<target, c2t, t2c>>
    /\ UNCHANGED <<cliVars, rbuf, rpos, clientConn, deadline, now, class, peek, peekErr,
                   entryDeadline, toClient, httpVars, upVars, errChan, first, toUp>>
    /\ UNCHANGED served
    /\ UNCHANGED c2tBuf
    /\ UNCHANGED mainVars

\* io.Copy: what a Write of chunk adds to the bytes dst has received
CopyWriteTwice(dst, chunk) == dst \o chunk \o chunk

CopyWrite(dst, chunk) == dst \o chunk

\* io.Copy(target, client), one round: Read from the client connection (not from the
\* bufio.Reader), then Write to the upstream connection; the Write returns at once
\* unless the upstream's receive window is full (stalled)
C2TCopy(stalled) ==
    /\ c2t.pc = "copy"
    /\ clientConn = "open" /\ ~Expired /\ cliQ # <<>>
    /\ cliQ' = <<>>
    /\ IF target # "open"
         THEN /\ toUp' = toUp /\ c2tBuf' = <<>>
              /\ c2t' = [c2t EXCEPT !.pc = "report", !.err = "err"]
         ELSE IF stalled
         THEN /\ toUp' = toUp /\ c2tBuf' = cliQ
              /\ c2t' = [c2t EXCEPT !.pc = "write"]
         ELSE /\ toUp' = CopyWrite(toUp, cliQ) /\ c2tBuf' = <<>>
              /\ c2t' = c2t
    /\ UNCHANGED <<stream, sentN, sends, cliEOF>>
    /\ UNCHANGED <<rbuf, rpos, clientConn, deadline, now, pc, class, peek, peekErr,
                   entryDeadline, exit, toClient, httpVars, dials, target, upVars,
                   t2c, errChan, first>>
    /\ UNCHANGED <<egress, served>>
    /\ UNCHANGED mainVars

\* the Write that found the upstream's window full returns once the upstream reads
\* again; the upstream connection carries no deadline
C2TWriteOk ==
    /\ c2t.pc = "write"
    /\ target = "open"
    /\ toUp' = CopyWrite(toUp, c2tBuf)
    /\ c2tBuf' = <<>>
    /\ c2t' = [c2t EXCEPT !.pc = "copy"]
    /\ UNCHANGED <<cliVars, rbuf, rpos, clientConn, deadline, now, pc, class, peek,
                   peekErr, entryDeadline, exit, toClient, httpVars, dials, target,
                   upVars, t2c, errChan, first>>
    /\ UNCHANGED <<egress, served>>
    /\ UNCHANGED mainVars

\* the blocked Write fails once target has been closed
C2TWriteFail ==
    /\ c2t.pc = "write"
    /\ target = "closed"
    /\ c2tBuf' = <<>>
    /\ c2t' = [c2t EXCEPT !.pc = "report", !.err = "err"]
    /\ UNCHANGED <<cliVars, rbuf, rpos, clientConn, deadline, now, pc, class, peek,
                   peekErr, entryDeadline, exit, toClient, httpVars, dials, target,
                   upVars, t2c, errChan, first, toUp>>
    /\ UNCHANGED <<egress, served>>
    /\ UNCHANGED mainVars

\* io.Copy(target, client) ends: the Read fails (connection closed, deadline) or meets EOF
C2TEnd ==
    /\ c2t.pc = "copy"
    /\ \/ /\ clientConn = "closed" \/ Expired
          /\ c2t' = [c2t EXCEPT !.pc = "report", !.err = "err"]
       \/ /\ clientConn = "open" /\ ~Expired /\ cliQ = <<>> /\ cliEOF
          /\ c2t' = [c2t EXCEPT !.pc = "report", !.err = "nil"]
    /\ UNCHANGED <<cliVars, rbuf, rpos, clientConn, deadline, now, pc, class, peek,
                   peekErr, entryDeadline, exit, toClient, httpVars, dials, target,
                   upVars, t2c, errChan, first, toUp>>
    /\ UNCHANGED <<egress, served>>
    /\ UNCHANGED c2tBuf
    /\ UNCHANGED mainVars

\* errChan <- err of the client -> target goroutine
C2TReport ==
    /\ c2t.pc = "report"
    /\ Len(errChan) < ErrChanCap
    /\ errChan' = Append(errChan, c2t.err)
    /\ c2t' = [c2t EXCEPT !.pc = "done"]
    /\ UNCHANGED <<cliVars, rbuf, rpos, clientConn, deadline, now, pc, class, peek,
                   peekErr, entryDeadline, exit, toClient, httpVars, dials, target,
                   upVars, t2c, first, toUp>>
    /\ UNCHANGED <<egress, served>>
    /\ UNCHANGED c2tBuf
    /\ UNCHANGED mainVars

\* io.Copy(client, target), one round: Read from the upstream connection, then Write
\* to the client connection
T2CCopy ==
    /\ t2c.pc = "copy"
    /\ target = "open" /\ upQ # <<>>
    /\ upQ' = <<>>
    /\ IF clientConn = "open" /\ ~Expired
         THEN toClient' = CopyWrite(toClient, upQ) /\ t2c' = t2c
         ELSE toClient' = toClient /\ t2c' = [t2c EXCEPT !.pc = "report", !.err = "err"]
    /\ UNCHANGED <<upSent, upEOF>>
    /\ UNCHANGED <<cliVars, rbuf, rpos, clientConn, deadline, now, pc, class, peek,
                   peekErr, entryDeadline, exit, httpVars, dials, target, c2t, errChan,
                   first, toUp>>
    /\ UNCHANGED <<egress, served>>
    /\ UNCHANGED c2tBuf
    /\ UNCHANGED mainVars

\* a Read on the upstream connection that only end of stream ends
T2CEndOnEOF ==
    /\ t2c.pc = "copy"
    /\ target = "open" /\ upQ = <<>> /\ upEOF
    /\ t2c' = [t2c EXCEPT !.pc = "report", !.err = "nil"]
    /\ UNCHANGED <<cliVars, rbuf, rpos, clientConn, deadline, now, pc, class, peek,
                   peekErr, entryDeadline, exit, toClient, httpVars, dials, target,
                   upVars, c2t, errChan, first, toUp>>
    /\ UNCHANGED <<egress, served>>
    /\ UNCHANGED c2tBuf
    /\ UNCHANGED mainVars

\* io.Copy(client, target) ends: the Read fails (connection closed) or meets EOF
T2CEnd ==
    /\ t2c.pc = "copy"
    /\ \/ /\ target = "closed"
          /\ t2c' = [t2c EXCEPT !.pc = "report", !.err = "err"]
       \/ /\ target = "open" /\ upQ = <<>> /\ upEOF
          /\ t2c' = [t2c EXCEPT !.pc = "report", !.err = "nil"]
    /\ UNCHANGED <<cliVars, rbuf, rpos, clientConn, deadline, now, pc, class, peek,
                   peekErr, entryDeadline, exit, toClient, httpVars, dials, target,
                   upVars, c2t, errChan, first, toUp>>
    /\ UNCHANGED <<egress, served>>
    /\ UNCHANGED c2tBuf
    /\ UNCHANGED mainVars

\* errChan <- err of the target -> client goroutine
T2CReport ==
    /\ t2c.pc = "report"
    /\ Len(errChan) < ErrChanCap
    /\ errChan' = Append(errChan, t2c.err)
    /\ t2c' = [t2c EXCEPT !.pc = "done"]
    /\ UNCHANGED <<cliVars, rbuf, rpos, clientConn, deadline, now, pc, class, peek,
                   peekErr, entryDeadline, exit, toClient, httpVars, dials, target,
                   upVars, c2t, first, toUp>>
    /\ UNCHANGED <<egress, served>>
    /\ UNCHANGED c2tBuf
    /\ UNCHANGED mainVars

\* number of outcomes the session takes from errChan before it goes on
OutcomesAwaitedBoth == ErrChanCap

OutcomesAwaited == 1

\* err := <-errChan: the session takes the first outcome and goes on to return
SMTPRecv ==
    /\ pc = "smtp_wait"
    /\ Len(errChan) >= OutcomesAwaited
    /\ first' = Head(errChan)
    /\ errChan' = Tail(errChan)
    /\ exit' = "relay_end"
    /\ pc' = "smtp_ret"
    /\ UNCHANGED <<cliVars, rbuf, rpos, clientConn, deadline, now, class, peek, peekErr,
                   entryDeadline, toClient, httpVars, dials, target, upVars, c2t, t2c,
                   toUp>>
    /\ UNCHANGED <<egress, served>>
    /\ UNCHANGED c2tBuf
    /\ UNCHANGED mainVars

\* return of handleSMTP: the deferred target.Close() (when the dial succeeded) and
\* client.SetDeadline(time.Time{}) run
SMTPReturn ==
    /\ pc = "smtp_ret"
    /\ target' = IF target = "open" THEN "closed" ELSE target
    /\ deadline' = {}
    /\ pc' = "conn_ret"
    /\ UNCHANGED <<cliVars, rbuf, rpos, clientConn, now, class, peek, peekErr,
                   entryDeadline, exit, toClient, httpVars, dials, upVars, copyVars>>
    /\ UNCHANGED <<egress, served>>
    /\ UNCHANGED c2tBuf
    /\ UNCHANGED mainVars

(***************************************************************************)
(* Environment: the Opaque upstream                                        *)
(***************************************************************************)
UpstreamSend ==
    /\ target = "open" /\ ~upEOF
    /\ Len(upSent) < MaxUp
    /\ upSent' = Append(upSent, UpByte(Len(upSent) + 1))
    /\ upQ' = Append(upQ, UpByte(Len(upSent) + 1))
    /\ UNCHANGED upEOF
    /\ UNCHANGED <<cliVars, rbuf, rpos, clientConn, deadline, now, pc, class, peek,
                   peekErr, entryDeadline, exit, toClient, httpVars, dials, target,
                   copyVars>>
    /\ UNCHANGED <<egress, served>>
    /\ UNCHANGED c2tBuf
    /\ UNCHANGED mainVars

UpstreamClose ==
    /\ target = "open" /\ ~upEOF
    /\ upEOF' = TRUE
    /\ UNCHANGED <<upSent, upQ>>
    /\ UNCHANGED <<cliVars, rbuf, rpos, clientConn, deadline, now, pc, class, peek,
                   peekErr, entryDeadline, exit, toClient, httpVars, dials, target,
                   copyVars>>
    /\ UNCHANGED <<egress, served>>
    /\ UNCHANGED c2tBuf
    /\ UNCHANGED mainVars

(***************************************************************************)
(* Specification                                                           *)
(***************************************************************************)
Next ==
    \/ \E k \in 1..Len(stream) : ClientSend(k)
    \/ ClientClose
    \/ Tick
    \/ ConnStart
    \/ PeekFill
    \/ PeekOk
    \/ PeekFail
    \/ Classify
    \/ ConnReturn
    \/ HTTPReadFill
    \/ HTTPParseError
    \/ HTTPParseOk
    \/ HTTPRouteMiss
    \/ HTTPRouteHit
    \/ \E ok \in BOOLEAN : HTTPDial(ok)
    \/ HTTPBodyFill
    \/ HTTPSend
    \/ HTTPDoError
    \/ \E raw \in Responses : HTTPResp(raw)
    \/ HTTPWriteOk
    \/ HTTPWriteError
    \/ SMTPEnter
    \/ \E ok \in BOOLEAN : SMTPDial(ok)
    \/ \E stalled \in BOOLEAN : C2TCopy(stalled)
    \/ C2TWriteOk
    \/ C2TWriteFail
    \/ C2TEnd
    \/ C2TReport
    \/ T2CCopy
    \/ T2CEnd
    \/ T2CReport
    \/ SMTPRecv
    \/ SMTPReturn
    \/ UpstreamSend
    \/ UpstreamClose

Spec == Init /\ [][Next]_vars

(***************************************************************************)
(* main and the listener goroutine                                         *)
(***************************************************************************)
\* the process runs: main has not returned and log.Fatal has not been called
Alive == mpc \notin {"exited", "fatal"} /\ lpc # "fatal"

\* go func() { ... }(): main starts the listener goroutine and goes on
MainGo ==
    /\ mpc = "start"
    /\ mpc' = "exec"
    /\ lpc' = "listen"
    /\ UNCHANGED <<bound, companion, sess, acceptErrs>>
    /\ UNCHANGED sessVars

\* os.Executable(): on error log.Fatal ends the process
MainExecutable(ok) ==
    /\ mpc = "exec" /\ Alive
    /\ mpc' = IF ok THEN "cmd" ELSE "fatal"
    /\ UNCHANGED <<lpc, bound, companion, sess, acceptErrs>>
    /\ UNCHANGED sessVars

\* exec.Command(yamnPath, args...), cmd.Run(): the companion is started
MainRun ==
    /\ mpc = "cmd" /\ Alive
    /\ companion' = "running"
    /\ mpc' = "run"
    /\ UNCHANGED <<lpc, bound, sess, acceptErrs>>
    /\ UNCHANGED sessVars

\* cmd.Run() returns when the companion exits; main returns and the process ends
MainReturn ==
    /\ mpc = "run" /\ Alive
    /\ companion' = "done"
    /\ mpc' = "exited"
    /\ UNCHANGED <<lpc, bound, sess, acceptErrs>>
    /\ UNCHANGED sessVars

\* net.Listen("tcp", LocalProxy); on error log.Fatal ends the process
Listen(ok) ==
    /\ lpc = "listen" /\ Alive
    /\ IF ok THEN bound' = TRUE /\ lpc' = "accept"
             ELSE bound' = bound /\ lpc' = "fatal"
    /\ UNCHANGED <<mpc, companion, sess, acceptErrs>>
    /\ UNCHANGED sessVars

\* listener.Accept() returns a connection
AcceptOk ==
    /\ lpc = "accept" /\ Alive
    /\ Len(sess) < MaxAccepts
    /\ sess' = Append(sess, "accepted")
    /\ lpc' = "dispatch"
    /\ UNCHANGED <<mpc, bound, companion, acceptErrs>>
    /\ UNCHANGED sessVars

\* an accept error after which the goroutine returns
AcceptErrorReturn ==
    /\ lpc = "accept" /\ Alive
    /\ acceptErrs < MaxAcceptErrs
    /\ acceptErrs' = acceptErrs + 1
    /\ lpc' = "off"
    /\ UNCHANGED <<mpc, bound, companion, sess>>
    /\ UNCHANGED sessVars

\* listener.Accept() returns an error: it is logged and the loop continues
AcceptError ==
    /\ lpc = "accept" /\ Alive
    /\ acceptErrs < MaxAcceptErrs
    /\ acceptErrs' = acceptErrs + 1
    /\ lpc' = "accept"
    /\ UNCHANGED <<mpc, bound, companion, sess>>
    /\ UNCHANGED sessVars

\* go handleConnection(conn, os.Stdout): the session gets its own goroutine and the
\* loop goes back to Accept
Dispatch ==
    /\ lpc = "dispatch" /\ Alive
    /\ sess' = [sess EXCEPT ![Len(sess)] = "running"]
    /\ lpc' = "accept"
    /\ UNCHANGED <<mpc, bound, companion, acceptErrs>>
    /\ UNCHANGED sessVars

\* handleConnection of the i-th connection returns
SessionReturns(i) ==
    /\ Alive
    /\ sess[i] = "running"
    /\ sess' = [sess EXCEPT ![i] = "done"]
    /\ UNCHANGED <<mpc, lpc, bound, companion, acceptErrs>>
    /\ UNCHANGED sessVars

\* handleConnection of the i-th connection blocks for good (a silent peer)
SessionBlocks(i) ==
    /\ Alive
    /\ sess[i] = "running"
    /\ sess' = [sess EXCEPT ![i] = "stuck"]
    /\ UNCHANGED <<mpc, lpc, bound, companion, acceptErrs>>
    /\ UNCHANGED sessVars

\* the process at the start of main, no connection accepted yet
MainInit ==
    /\ SessInit /\ stream = <<>>
    /\ mpc = "start" /\ lpc = "off" /\ bound = FALSE /\ companion = "none"
    /\ sess = <<>> /\ acceptErrs = 0

MainNext ==
    \/ MainGo
    \/ \E ok \in BOOLEAN : MainExecutable(ok)
    \/ MainRun
    \/ MainReturn
    \/ \E ok \in BOOLEAN : Listen(ok)
    \/ AcceptOk
    \/ AcceptError
    \/ Dispatch
    \/ \E i \in DOMAIN sess : SessionReturns(i)
    \/ \E i \in DOMAIN sess : SessionBlocks(i)

MainSpec == MainInit /\ [][MainNext]_vars

\* steps the relay takes on its own once they are possible: the goroutines of the
\* session are scheduled, reads and writes on the client connection return at its
\* deadline at the latest, the SOCKS5 dial of handleSMTP returns within ConnectTimeout,
\* and time passes.  What the client, the proxy of the HTTP transport and the
\* upstreams do is not among them.
ProgStep ==
    \/ Tick
    \/ ConnStart
    \/ PeekFill
    \/ PeekOk
    \/ PeekFail
    \/ Classify
    \/ ConnReturn
    \/ HTTPReadFill
    \/ HTTPParseError
    \/ HTTPParseOk
    \/ HTTPRouteMiss
    \/ HTTPRouteHit
    \/ HTTPBodyFill
    \/ HTTPSend
    \/ (pc = "http_send" /\ HTTPDoError)
    \/ HTTPWriteOk
    \/ HTTPWriteError
    \/ SMTPEnter
    \/ \E ok \in BOOLEAN : SMTPDial(ok)
    \/ \E stalled \in BOOLEAN : C2TCopy(stalled)
    \/ C2TWriteFail
    \/ C2TEnd
    \/ C2TReport
    \/ T2CCopy
    \/ T2CEnd
    \/ T2CReport
    \/ SMTPRecv
    \/ SMTPReturn

FairSpec == Spec /\ WF_vars(ProgStep)

\* sessions of clients whose stream does not begin with an HTTP token: the Opaque path
OpaqueInit ==
    /\ Init
    /\ \A t \in {tokGET, tokPOST, tokHEAD, tokCONNECT} :
           ~IsPrefix(SubSeq(t, 1, PeekLen), stream)

OpaqueNext ==
    \/ \E k \in 1..Len(stream) : ClientSend(k)
    \/ ClientClose
    \/ Tick
    \/ ConnStart
    \/ PeekFill
    \/ PeekOk
    \/ PeekFail
    \/ Classify
    \/ ConnReturn
    \/ SMTPEnter
    \/ \E ok \in BOOLEAN : SMTPDial(ok)
    \/ \E stalled \in BOOLEAN : C2TCopy(stalled)
    \/ C2TWriteOk
    \/ C2TWriteFail
    \/ C2TEnd
    \/ C2TReport
    \/ T2CCopy
    \/ T2CEnd
    \/ T2CReport
    \/ SMTPRecv
    \/ SMTPReturn
    \/ UpstreamSend
    \/ UpstreamClose

OpaqueSpec == OpaqueInit /\ [][OpaqueNext]_vars /\ WF_vars(ProgStep)


(***************************************************************************)
(* Properties                                                              *)
(***************************************************************************)
\* the four-byte prefixes the specification names: "GET ", "POST", "HEAD", "CONN"
HTTPTokens ==
    { SubSeq(tokGET, 1, PeekLen), SubSeq(tokPOST, 1, PeekLen),
      SubSeq(tokHEAD, 1, PeekLen), SubSeq(tokCONNECT, 1, PeekLen) }

SentBytes == SubSeq(stream, 1, sentN)

\* C1: a connection whose first four bytes are "GET ", "POST", "HEAD" or "CONN" is
\* classified HTTP and handed to handleHTTP, never to the Opaque path.
C1_TokenIsHTTP ==
    (peek \in HTTPTokens /\ class # "none") => class = "HTTP"

\* C2: a connection whose four-byte peek fails, or whose first four bytes are none of
\* the HTTP tokens, is classified Opaque and enters handleSMTP; it is never parsed as
\* HTTP and never leaves the session without having entered handleSMTP.
C2_NonHTTPIsOpaque ==
    (peekErr \/ (pc \notin {"start", "peek"} /\ peek \notin HTTPTokens)) =>
        /\ class # "HTTP"
        /\ req = NoReq
        /\ pc # "classify" => class = "Opaque"
        /\ pc \in {"conn_ret", "done"} => exit \in {"smtp_dial_failed", "relay_end"}

C2_Witness ==
    /\ peek # <<>> /\ peek \notin HTTPTokens
    /\ class = "Opaque" /\ pc = "smtp_wait"

\* C3: in an Opaque session whose upstream is established, the bytes delivered to the
\* upstream are the bytes the client sent, from the first byte of the connection on,
\* in order, none dropped or duplicated.
C3_ClientBytesDelivered ==
    (class = "Opaque" /\ target # "none") => IsPrefix(toUp, SentBytes)

\* C4: in an Opaque session the bytes written to the client are at every moment a
\* prefix of the bytes the upstream has sent.
C4_UpstreamToClientPrefix ==
    class = "Opaque" => IsPrefix(toClient, upSent)

C4_Witness ==
    /\ class = "Opaque"
    /\ Len(toClient) >= 2 /\ toClient = upSent

\* the inbound request as the client put it on the wire
InboundMethod == SubSeq(stream, 1, IndexOf(stream, SP) - 1)
InboundHeader == Range(SubSeq(stream, IndexOf(stream, SP) + 3, IndexOf(stream, LF) - 1))
InboundBody ==
    SubSeq(stream, IndexOf(stream, LF) + 1,
           IndexOf(stream, LF) + (IF 108 \in InboundHeader THEN 1 ELSE 0))
InboundKey == <<stream[IndexOf(stream, SP) + 2], stream[IndexOf(stream, SP) + 1]>>

OutboundAsInbound ==
    /\ newReq.method = InboundMethod
    /\ newReq.body = InboundBody
    /\ newReq.header = InboundHeader
    /\ InboundKey \in DOMAIN httpTargets
    /\ newReq.url = httpTargets[InboundKey]

C6_SilentDrop ==
    exit \in {"parse_error", "no_target"} =>
        /\ toClient = <<>>
        /\ dials = 0 /\ httpConn = "none" /\ target = "none"
        /\ pc = "done" => clientConn = "closed"

C6_Witness ==
    /\ exit = "no_target" /\ pc = "done" /\ req # NoReq

\* C7: in a session, HTTP or Opaque, whose dial of the upstream through the proxy
\* fails, the client connection is closed and no byte is ever written to it.
C7_DialFailure ==
    exit \in {"http_dial_failed", "smtp_dial_failed"} =>
        /\ toClient = <<>>
        /\ pc = "done" => clientConn = "closed"

C7_Witness ==
    /\ exit = "http_dial_failed" /\ pc = "done" /\ dials = 1

\* C8: once the session's handler has returned, on every exit path, the client
\* connection and every upstream connection opened for the session are closed.
C8_AllClosed ==
    pc = "done" =>
        /\ clientConn = "closed"
        /\ target # "open"
        /\ httpConn \notin {"open", "idle"}

\* C9: an Opaque session goes on to terminate as soon as one copy direction has
\* reported an outcome, error or clean end; it does not wait for the other one.
C9_FirstOutcomeEnds ==
    /\ (pc = "smtp_wait" /\ errChan # <<>>) => ENABLED SMTPRecv
    /\ exit = "relay_end" => first \in {"nil", "err"}

C9_Witness ==
    /\ pc = "done" /\ exit = "relay_end" /\ first = "nil"
    /\ clientConn = "closed" /\ target = "closed"
    /\ c2t.pc = "copy" \/ t2c.pc = "copy"

\* C10: when handleHTTP or handleSMTP begins, the classification deadline set by
\* handleConnection has been cleared from the client connection.
C10_DeadlineClearedAtHandoff ==
    class # "none" => entryDeadline = {}

\* C11: once a session is classified HTTP its client I/O is governed by the I/O window:
\* a response that arrives after the classification window but within the I/O window
\* is still written to the client.
C11_HTTPUnderIoWindow ==
    (class = "HTTP" /\ exit \in {"success", "write_error"} /\ now < IoTimeout) =>
        (exit = "success" /\ toClient # <<>>)

\* C14: every upstream connection a session dials, on the HTTP path and on the Opaque
\* path, goes to the SOCKS5 proxy address, also after a failed attempt; an opened
\* upstream connection is one of those dials.
C14_EgressViaProxy ==
    /\ \A c \in egress : c.peer = ProxyAddr
    /\ (httpConn # "none" \/ target # "none") => egress # {}
    /\ Cardinality(egress) = dials

C14_Witness ==
    /\ httpConn = "open"
    /\ egress = {[peer |-> ProxyAddr, dest |-> newReq.url]}

\* bytes of the stream that make up its first request (header block and declared body)
FirstRequestLen ==
    IndexOf(stream, LF) + (IF 108 \in InboundHeader THEN 1 ELSE 0)

\* C15: an HTTP connection services one request: http.ReadRequest is called at most
\* once and at most one route lookup is made; the parser and the body reader never
\* go past the first request, nothing is relayed to the Opaque upstream, and when the
\* session is over the client connection is closed.
C15_OneRequest ==
    /\ served.reads <= 1 /\ served.lookups <= 1
    /\ class = "HTTP" =>
        /\ rpos <= FirstRequestLen
        /\ Len(newReq.body) <= 1
        /\ toUp = <<>>
        /\ pc = "done" => clientConn = "closed"

C15_Witness ==
    /\ class = "HTTP" /\ pc = "done" /\ exit = "success"
    /\ served = [reads |-> 1, lookups |-> 1]
    /\ Len(rbuf) > FirstRequestLen

\* a buffer that holds a well-formed header block
WellFormed(b) ==
    /\ LF \in Range(b)
    /\ IndexOf(b, SP) > 1
    /\ IndexOf(b, LF) >= IndexOf(b, SP) + 3

\* C16: the four-byte peek consumes nothing on the HTTP path: the parser reads the
\* client's stream from its first byte, so the request it returns starts with the
\* peeked bytes, and a well-formed request is not rejected.
C16_PeekNotConsumed ==
    (class = "HTTP" /\ pc # "http_read") =>
        /\ IsPrefix(peek, rbuf) /\ IsPrefix(rbuf, stream)
        /\ exit = "parse_error" => ~WellFormed(rbuf)
        /\ exit # "parse_error" =>
            /\ IsPrefix(req.method \o <<SP>>, peek)
            /\ req.method = InboundMethod
            /\ req.header = InboundHeader
            /\ RequestedURL(req) = InboundKey
            /\ rpos >= IndexOf(stream, LF)

C16_Witness ==
    /\ class = "HTTP" /\ pc = "http_route"
    /\ Len(rbuf) > PeekLen /\ req.method \o <<SP>> = peek

\* steps by which a relay that is at its completion wait moves on without any help
\* from the client or the upstream
RelayStep ==
    C2TEnd \/ C2TReport \/ C2TWriteFail \/ T2CCopy \/ T2CEnd \/ T2CReport \/ SMTPRecv

\* C18: on the Opaque path the client deadline is the entry time (the accept time, or
\* the classification timeout) plus IoTimeout while the session dials and relays, it
\* is cleared when the session has returned, and the window bounds the session: once
\* it has run out, a session still waiting for a copy outcome is not blocked.
C18_WindowBoundsOpaque ==
    class = "Opaque" =>
        /\ pc \in {"smtp_dial", "smtp_wait"} =>
              \E t \in {0, InitialTimeout} : deadline = {t + IoTimeout}
        /\ pc \in {"conn_ret", "done"} => deadline = {}
        /\ (pc = "smtp_wait" /\ Expired) => ENABLED RelayStep

\* C19: every session eventually returns and closes its client connection, whatever
\* the client, the proxy and the upstream do.
C19_SessionTerminates ==
    <>(pc = "done" /\ clientConn = "closed")

\* C12: a client that has sent nothing when the classification deadline runs out is
\* handed to the Opaque path and, as long as it goes on sending nothing, the relay
\* eventually closes its connection, whatever the upstream does.
C12_SilentClientClosed ==
    (pc = "peek" /\ Expired /\ sentN = 0 /\ ~cliEOF) ~>
        ((class = "Opaque" /\ clientConn = "closed") \/ sentN > 0)

C12_Witness ==
    /\ peekErr /\ sentN = 0 /\ ~cliEOF
    /\ class = "Opaque" /\ clientConn = "closed" /\ target = "closed"
    /\ now = InitialTimeout + IoTimeout

\* outcomes the copy goroutines have sent on errChan
OutcomesSent == Len(errChan) + (IF first = "none" THEN 0 ELSE 1)

CopiersDone ==
    (IF c2t.pc = "done" THEN 1 ELSE 0) + (IF t2c.pc = "done" THEN 1 ELSE 0)

\* C17: a copy goroutine that is about to send its outcome finds room in errChan, the
\* outcomes sent are one per finished goroutine, and once the session has closed both
\* connections both goroutines eventually finish.
C17_CopyUnitsReportOnce ==
    /\ [](/\ (c2t.pc = "report" \/ t2c.pc = "report") => Len(errChan) < ErrChanCap
          /\ OutcomesSent = CopiersDone)
    /\ (class = "Opaque" /\ clientConn = "closed" /\ target = "closed") ~>
           (c2t.pc = "done" /\ t2c.pc = "done")

C17_Witness ==
    /\ pc = "done" /\ first # "none"
    /\ c2t.pc = "done" /\ t2c.pc = "done"
    /\ Len(errChan) = 1

\* C13: while the process runs and the listen socket is bound, the listener goroutine
\* is at Accept or about to start the goroutine of the connection it accepted; it can
\* take either step whatever the sessions do and however many accept errors occurred.
C13_AcceptLoopGoesOn ==
    (Alive /\ bound) =>
        /\ lpc \in {"accept", "dispatch"}
        /\ lpc = "dispatch" => ENABLED Dispatch
        /\ (lpc = "accept" /\ Len(sess) < MaxAccepts) => ENABLED AcceptOk

C13_Witness ==
    /\ Alive /\ lpc = "accept" /\ acceptErrs > 0
    /\ Len(sess) < MaxAccepts
    /\ \E i \in DOMAIN sess : sess[i] = "stuck"

\* C20: the companion runs only once the listen socket is bound.
C20_BoundBeforeCompanion ==
    companion = "running" => bound

====
